---- MODULE Spec2Model ----
(***************************************************************************)
(* Signal-and-risk decision procedure of the two strategies                *)
(*   variant "A" : src/strategies/RSI5MinStrategy/__init__.py              *)
(*   variant "B" : src/strategies/TemaTrendFollowing/__init__.py           *)
(*                                                                         *)
(* Numbers.  Prices, indicator values and quantities are integers.  The    *)
(* float hyperparameters that multiply ATR are kept in tenths (2.0 -> 20), *)
(* so the price of every order and position (entry, stop, target) is kept  *)
(* in tenths of a price unit: entry_price = 10 * close, and a level is     *)
(* entry_price -/+ atr * mult.  The float factors of                       *)
(* the code (0.998, 1.002, 1.1, 0.9, 1.2) are compared by cross            *)
(* multiplication, e.g.  close < ema_fast * 0.998  is                      *)
(* 1000 * close < 998 * ema_fast.                                          *)
(*                                                                         *)
(* The indicator library, the sizing utilities and the order/positions     *)
(* bookkeeping belong to the framework.  Their results are inputs: every   *)
(* value they can hand to the strategy is drawn from a small set.          *)
(***************************************************************************)
EXTENDS Integers, Sequences, FiniteSets, TLC

VARIABLES
    variant,             \* "A" (RSI5MinStrategy) or "B" (TemaTrendFollowing)
    exchange_type,       \* self.exchange_type: "spot" or "futures"
    hp,                  \* self.hp, the hyperparameter record
    index,               \* self.index, the current bar index
    ind,                 \* indicator snapshot of the current bar
    acct,                \* account accessors of the current bar
    position,            \* self.position: [side, qty, entry_price]
    buy,                 \* self.buy  : None or [qty, price] submitted this bar
    sell,                \* self.sell : None or [qty, price] submitted this bar
    stop_loss,           \* self.stop_loss   : None or [qty, price]
    take_profit,         \* self.take_profit : None or [qty, price]
    entry_candle_index,  \* self._entry_candle_index (None: attribute absent)
    has_candles_4h,      \* variant B: hasattr(self, '_candles_4h')
    sizing,              \* what the last go_long/go_short computed
    liquidate_calls,     \* self.liquidate() calls made by the last update_position
    exit_trigger,        \* which branch of the last update_position liquidated
    last,                \* [hook, ret]: the last hook called and how it ended
    pc                   \* position of the per-bar scheduler

vars == <<variant, exchange_type, hp, index, ind, acct, position, buy, sell,
          stop_loss, take_profit, entry_candle_index, has_candles_4h, sizing,
          liquidate_calls, exit_trigger, last, pc>>

\* An optional value is a sequence: <<>> when absent (None, or an attribute
\* that was never set), <<v>> when present.
None == <<>>

Some(v) == <<v>>

\* self.buy / self.sell / self.stop_loss / self.take_profit = qty, price
Order(qty, price) == [set |-> TRUE, qty |-> qty, price |-> price]

NoOrder == [set |-> FALSE, qty |-> 0, price |-> 0]

NoSizing == [capital |-> 0, entry_price |-> 0, stop_loss_price |-> 0,
             qty |-> 0, max_qty |-> 0, final_qty |-> 0]

Min(a, b) == IF a <= b THEN a ELSE b

(***************************************************************************)
(* Numeric literals of the code.                                           *)
(***************************************************************************)
VolumeFactor10 == 12          \* volume_sma * 1.2
EmaBelow1000 == 998           \* ema_fast * 0.998
EmaAbove1000 == 1002          \* ema_fast * 1.002
LiqLong10 == 11               \* liquidation_price * 1.1
LiqShort10 == 9               \* liquidation_price * 0.9
RsiExitLong == 60             \* self.rsi > 60
RsiExitShort == 40            \* self.rsi < 40

(***************************************************************************)
(* Hyperparameters (declared ranges; the sets hold the ends of each range  *)
(* and the default).                                                       *)
(***************************************************************************)
DefaultHpA ==
    [ rsi_overbought |-> 70, rsi_oversold |-> 30, rsi_momentum_period |-> 3,
      use_trend_filter |-> TRUE, stop_loss_atr_mult |-> 20,
      take_profit_atr_mult |-> 30, use_volume_filter |-> FALSE,
      max_hold_candles |-> 50 ]

DefaultHpB ==
    [ adx_threshold |-> 40, cmo_upper_threshold |-> 40,
      cmo_lower_threshold |-> -40, entry_atr_offset |-> 10,
      stop_loss_atr_mult |-> 40, take_profit_atr_mult |-> 30,
      position_multiplier |-> 3 ]

(***************************************************************************)
(* Variant A: indicator properties.                                        *)
(***************************************************************************)
\* ta.rsi(self.candles, ...): the latest reading of the RSI series
rsi == ind.rsi_seq[Len(ind.rsi_seq)]

rsi_seq == ind.rsi_seq

close == ind.close

ema_fast == ind.ema_fast

ema_slow == ind.ema_slow

atr == ind.atr

\* try: ema of the 15m candles; except: ema of self.candles, same period
higher_tf_ema == IF ind.htf_ok THEN ind.ema_15m ELSE ind.ema_5m

is_open == position.side # "none"

is_long == position.side = "long"

is_short == position.side = "short"

(***************************************************************************)
(* Variant A: helper methods.                                              *)
(***************************************************************************)
\* recent_rsi = self.rsi_seq[-period-1:]
recent_rsi ==
    SubSeq(rsi_seq, Len(rsi_seq) - hp.rsi_momentum_period, Len(rsi_seq))

rsi_momentum_bullish ==
    IF Len(rsi_seq) < hp.rsi_momentum_period + 1 THEN FALSE
    ELSE LET momentum_count ==
                 Cardinality({i \in 2..Len(recent_rsi) :
                                  recent_rsi[i] > recent_rsi[i-1]})
         IN  momentum_count >= (Len(recent_rsi) - 1) \div 2

rsi_momentum_bearish_wrong ==
    IF Len(rsi_seq) < hp.rsi_momentum_period + 1 THEN FALSE
    ELSE LET momentum_count ==
                 Cardinality({i \in 2..Len(recent_rsi) :
                                  recent_rsi[i] < recent_rsi[i-1]})
         IN  momentum_count > (Len(recent_rsi) - 1) \div 2

rsi_momentum_bearish ==
    IF Len(rsi_seq) < hp.rsi_momentum_period + 1 THEN FALSE
    ELSE LET momentum_count ==
                 Cardinality({i \in 2..Len(recent_rsi) :
                                  recent_rsi[i] < recent_rsi[i-1]})
         IN  momentum_count >= (Len(recent_rsi) - 1) \div 2

\* the verdict of the EMA cross alone
trend_direction_primary_only ==
    IF ~hp.use_trend_filter THEN 0
    ELSE IF ema_fast > ema_slow THEN 1 ELSE -1

\* 1 = bullish, -1 = bearish, 0 = neutral
trend_direction ==
    IF ~hp.use_trend_filter THEN 0
    ELSE LET primary_trend == IF ema_fast > ema_slow THEN 1 ELSE -1
             htf_trend == IF close > higher_tf_ema THEN 1 ELSE -1
         IN  IF primary_trend = htf_trend THEN primary_trend ELSE 0

volume_confirmation ==
    IF ~hp.use_volume_filter THEN TRUE
    ELSE 10 * ind.volume > ind.volume_sma * VolumeFactor10

get_position_entry_candle == entry_candle_index

(***************************************************************************)
(* Variant A: entry logic.                                                 *)
(***************************************************************************)
should_long_A ==
    IF rsi >= hp.rsi_oversold THEN FALSE
    ELSE IF ~rsi_momentum_bullish THEN FALSE
    ELSE IF hp.use_trend_filter /\ trend_direction = -1 THEN FALSE
    ELSE IF ~volume_confirmation THEN FALSE
    ELSE IF hp.use_trend_filter /\ 1000 * close < ema_fast * EmaBelow1000
         THEN FALSE
    ELSE TRUE

should_short_A_nospot ==
    IF rsi <= hp.rsi_overbought THEN FALSE
    ELSE IF ~rsi_momentum_bearish THEN FALSE
    ELSE IF hp.use_trend_filter /\ trend_direction = 1 THEN FALSE
    ELSE IF ~volume_confirmation THEN FALSE
    ELSE IF hp.use_trend_filter /\ 1000 * close > ema_fast * EmaAbove1000
         THEN FALSE
    ELSE TRUE

should_short_A ==
    IF exchange_type = "spot" THEN FALSE
    ELSE IF rsi <= hp.rsi_overbought THEN FALSE
    ELSE IF ~rsi_momentum_bearish THEN FALSE
    ELSE IF hp.use_trend_filter /\ trend_direction = 1 THEN FALSE
    ELSE IF ~volume_confirmation THEN FALSE
    ELSE IF hp.use_trend_filter /\ 1000 * close > ema_fast * EmaAbove1000
         THEN FALSE
    ELSE TRUE

(***************************************************************************)
(* Variant A: position management.  qty and max_qty are what               *)
(* utils.risk_to_qty and utils.size_to_qty return for the arguments the    *)
(* code passes; sizing records the call.                                   *)
(***************************************************************************)
go_long_A_unclamped(qty, max_qty) ==
    LET entry_price == 10 * close
        stop_loss_price == entry_price - atr * hp.stop_loss_atr_mult
        capital == IF exchange_type = "futures"
                   THEN acct.leveraged_available_margin
                   ELSE acct.balance
        final_qty == qty
    IN  /\ sizing' = [capital |-> capital, entry_price |-> entry_price,
                      stop_loss_price |-> stop_loss_price,
                      qty |-> qty, max_qty |-> max_qty, final_qty |-> final_qty]
        /\ IF final_qty <= 0
           THEN UNCHANGED <<buy, entry_candle_index>>
           ELSE /\ buy' = Order(final_qty, entry_price)
                /\ entry_candle_index' = Some(index)

go_long_A(qty, max_qty) ==
    LET entry_price == 10 * close
        stop_loss_price == entry_price - atr * hp.stop_loss_atr_mult
        capital == IF exchange_type = "futures"
                   THEN acct.leveraged_available_margin
                   ELSE acct.balance
        final_qty == Min(qty, max_qty)
    IN  /\ sizing' = [capital |-> capital, entry_price |-> entry_price,
                      stop_loss_price |-> stop_loss_price,
                      qty |-> qty, max_qty |-> max_qty, final_qty |-> final_qty]
        /\ IF final_qty <= 0
           THEN UNCHANGED <<buy, entry_candle_index>>
           ELSE /\ buy' = Order(final_qty, entry_price)
                /\ entry_candle_index' = Some(index)

go_short_A(qty, max_qty) ==
    IF exchange_type = "spot"
    THEN UNCHANGED <<sell, entry_candle_index, sizing>>
    ELSE LET entry_price == 10 * close
             stop_loss_price == entry_price + atr * hp.stop_loss_atr_mult
             capital == acct.leveraged_available_margin
             final_qty == Min(qty, max_qty)
         IN  /\ sizing' = [capital |-> capital, entry_price |-> entry_price,
                           stop_loss_price |-> stop_loss_price,
                           qty |-> qty, max_qty |-> max_qty,
                           final_qty |-> final_qty]
             /\ IF final_qty <= 0
                THEN UNCHANGED <<sell, entry_candle_index>>
                ELSE /\ sell' = Order(final_qty, entry_price)
                     /\ entry_candle_index' = Some(index)

should_cancel_entry == TRUE

(***************************************************************************)
(* Variant A: position updates.                                            *)
(***************************************************************************)
on_open_position_A_swapped ==
    LET entry_price == position.entry_price
        stop_loss_price ==
            IF is_long
            THEN entry_price - atr * hp.take_profit_atr_mult
            ELSE entry_price + atr * hp.take_profit_atr_mult
        take_profit_price ==
            IF is_long
            THEN entry_price + atr * hp.stop_loss_atr_mult
            ELSE entry_price - atr * hp.stop_loss_atr_mult
    IN  /\ stop_loss' = Order(position.qty, stop_loss_price)
        /\ take_profit' = Order(position.qty, take_profit_price)

on_open_position_A ==
    LET entry_price == position.entry_price
        stop_loss_price ==
            IF is_long
            THEN entry_price - atr * hp.stop_loss_atr_mult
            ELSE entry_price + atr * hp.stop_loss_atr_mult
        take_profit_price ==
            IF is_long
            THEN entry_price + atr * hp.take_profit_atr_mult
            ELSE entry_price - atr * hp.take_profit_atr_mult
    IN  /\ stop_loss' = Order(position.qty, stop_loss_price)
        /\ take_profit' = Order(position.qty, take_profit_price)

\* update_position runs its blocks in order; s = [calls, returned, trigger]
\* is how far it got.  self.liquidate(); return  is Liquidated(s, t).
Liquidated(s, t) == [calls |-> s.calls + 1, returned |-> TRUE, trigger |-> t]

near_liquidation_any_exchange ==
    /\ acct.liquidation_price # None
    /\ \/ is_long /\ 10 * close <= acct.liquidation_price[1] * LiqLong10
       \/ is_short /\ 10 * close >= acct.liquidation_price[1] * LiqShort10

near_liquidation ==
    /\ exchange_type = "futures"
    /\ acct.liquidation_price # None
    /\ \/ is_long /\ 10 * close <= acct.liquidation_price[1] * LiqLong10
       \/ is_short /\ 10 * close >= acct.liquidation_price[1] * LiqShort10

held_too_long_late ==
    LET entry_candle == get_position_entry_candle
    IN  /\ entry_candle # None
        /\ index - entry_candle[1] > hp.max_hold_candles

held_too_long ==
    LET entry_candle == get_position_entry_candle
    IN  /\ entry_candle # None
        /\ index - entry_candle[1] >= hp.max_hold_candles

rsi_exit ==
    IF is_long
    THEN rsi >= hp.rsi_overbought \/ (rsi > RsiExitLong /\ rsi_momentum_bearish)
    ELSE /\ is_short
         /\ rsi <= hp.rsi_oversold \/ (rsi < RsiExitShort /\ rsi_momentum_bullish)

trend_exit ==
    /\ hp.use_trend_filter
    /\ IF is_long /\ trend_direction = -1
       THEN close < ema_fast
       ELSE is_short /\ trend_direction = 1 /\ close > ema_fast

liquidation_block_no_return(s) ==
    IF s.returned THEN s
    ELSE IF near_liquidation
         THEN [calls |-> s.calls + 1, returned |-> FALSE,
               trigger |-> "liquidation"]
         ELSE s

liquidation_block(s) ==
    IF s.returned THEN s
    ELSE IF near_liquidation THEN Liquidated(s, "liquidation") ELSE s

time_block(s) ==
    IF s.returned THEN s
    ELSE IF held_too_long THEN Liquidated(s, "max_hold") ELSE s

rsi_block(s) ==
    IF s.returned THEN s
    ELSE IF rsi_exit THEN Liquidated(s, "rsi") ELSE s

trend_block(s) ==
    IF s.returned THEN s
    ELSE IF trend_exit THEN Liquidated(s, "trend") ELSE s

update_position_A ==
    LET s0 == [calls |-> 0, returned |-> ~is_open, trigger |-> "none"]
        s4 == trend_block(rsi_block(time_block(liquidation_block(s0))))
    IN  /\ liquidate_calls' = s4.calls
        /\ exit_trigger' = s4.trigger

(***************************************************************************)
(* Variant B.  self.get_candles(..., '4h') is called only while            *)
(* _candles_4h is not set; ind.ok_4h says whether that call succeeds.      *)
(***************************************************************************)
\* reading self.candles_4h raises: nothing cached and the retrieval fails
candles_4h_raises == ~has_candles_4h /\ ~ind.ok_4h

short_term_trend == IF ind.tema_short > ind.tema_medium THEN 1 ELSE -1

long_term_trend == IF ind.tema_short_4h > ind.tema_long_4h THEN 1 ELSE -1

\* the and-chain stops at the first false operand, so long_term_trend (and
\* with it candles_4h) is read only when short_term_trend agrees
should_long_B_raises == short_term_trend = 1 /\ candles_4h_raises

should_long_B ==
    /\ short_term_trend = 1
    /\ long_term_trend = 1
    /\ ind.adx > hp.adx_threshold
    /\ ind.cmo > hp.cmo_upper_threshold

should_short_B_raises == short_term_trend = -1 /\ candles_4h_raises

should_short_B ==
    /\ short_term_trend = -1
    /\ long_term_trend = -1
    /\ ind.adx > hp.adx_threshold
    /\ ind.cmo < hp.cmo_lower_threshold

go_long_B(qty) ==
    LET entry_price == 10 * ind.price - atr * hp.entry_atr_offset
        stop_loss_price == entry_price - atr * hp.stop_loss_atr_mult
    IN  /\ sizing' = [capital |-> acct.available_margin,
                      entry_price |-> entry_price,
                      stop_loss_price |-> stop_loss_price,
                      qty |-> qty, max_qty |-> 0,
                      final_qty |-> qty * hp.position_multiplier]
        /\ buy' = Order(qty * hp.position_multiplier, entry_price)

go_short_B(qty) ==
    LET entry_price == 10 * ind.price + atr * hp.entry_atr_offset
        stop_loss_price == entry_price + atr * hp.stop_loss_atr_mult
    IN  /\ sizing' = [capital |-> acct.available_margin,
                      entry_price |-> entry_price,
                      stop_loss_price |-> stop_loss_price,
                      qty |-> qty, max_qty |-> 0,
                      final_qty |-> qty * hp.position_multiplier]
        /\ sell' = Order(qty * hp.position_multiplier, entry_price)

on_open_position_B ==
    LET atr_stop == atr * hp.stop_loss_atr_mult
        atr_tp == atr * hp.take_profit_atr_mult
    IN  IF is_long
        THEN /\ stop_loss' = Order(position.qty, position.entry_price - atr_stop)
             /\ take_profit' = Order(position.qty, position.entry_price + atr_tp)
        ELSE IF is_short
        THEN /\ stop_loss' = Order(position.qty, position.entry_price + atr_stop)
             /\ take_profit' = Order(position.qty, position.entry_price - atr_tp)
        ELSE UNCHANGED <<stop_loss, take_profit>>

(***************************************************************************)
(* Bounds of the model and the values the framework hands to the strategy. *)
(***************************************************************************)
MaxQty == 2        \* largest quantity a sizing utility returns
MaxHold == 3       \* max_hold_candles of the runs (bars are counted up to it)
MaxSeqLen == 6     \* longest RSI series of the momentum runs

MaxBars == MaxHold + 1

\* results of utils.risk_to_qty / utils.size_to_qty (never negative)
QtyVals == 0..MaxQty

Flat == [side |-> "none", qty |-> 0, entry_price |-> 0]

\* last: the hook called last, whether it raised, and what it returned
\* (FALSE for a hook that returns nothing)
Call(hook, raised, ret) == [hook |-> hook, raised |-> raised, ret |-> ret]

NoCall == Call("none", FALSE, FALSE)

RsiVals == {25, 30, 35, 50, 65, 70, 75}

\* RSI series ending in r: rising, falling, flat, alternating, too short
RsiShapes(r) ==
    { <<r - 3, r - 2, r - 1, r>>, <<r + 3, r + 2, r + 1, r>>, <<r, r, r, r>>,
      <<r, r + 1, r - 1, r>>, <<r - 1, r>> }

RsiSeqs == UNION { RsiShapes(r) : r \in RsiVals }

\* the series of the bar-by-bar runs: rising or falling, ending oversold,
\* mid-range or overbought
RunRsiSeqs ==
    UNION { { <<r - 3, r - 2, r - 1, r>>, <<r + 3, r + 2, r + 1, r>> } :
            r \in {25, 50, 75} }

CloseVals == {997, 1000, 1003}

\* the 15m EMA lies below or above every close; the 5m EMA of the same
\* period lies between the closes
IndSetA(h, seqs) ==
    [ rsi_seq : seqs, close : CloseVals, ema_fast : {1000},
      ema_slow : IF h.use_trend_filter THEN {990, 1010} ELSE {990},
      htf_ok : IF h.use_trend_filter THEN BOOLEAN ELSE {TRUE},
      ema_15m : IF h.use_trend_filter THEN {990, 1010} ELSE {990},
      ema_5m : {1000},
      atr : {0, 5},
      volume : IF h.use_volume_filter THEN {120, 130} ELSE {120},
      volume_sma : {100} ]

IndSetB ==
    [ price : {1000}, atr : {0, 5},
      tema_short : {1000}, tema_medium : {990, 1010},
      ok_4h : BOOLEAN, tema_short_4h : {1000}, tema_long_4h : {990, 1010},
      adx : {40, 41}, cmo : {-41, 0, 41} ]

IndSet(v, h) == IF v = "A" THEN IndSetA(h, RunRsiSeqs) ELSE IndSetB

\* between two bars no indicator value is held (the per-bar cache is dropped)
BlankInd == [closed |-> TRUE]

BlankAcct == [closed |-> TRUE]

\* liquidation_price lies on the adverse side of an open position
AcctSet(side) ==
    [ balance : {1000}, leveraged_available_margin : {3000},
      available_margin : {1000},
      liquidation_price : IF side = "long" THEN {None, Some(910)}
                          ELSE IF side = "short" THEN {None, Some(1110)}
                          ELSE {None} ]

\* (stop_loss_atr_mult, take_profit_atr_mult) in tenths
MultsA == {<<20, 30>>, <<30, 15>>}

HpSetA ==
    { [DefaultHpA EXCEPT !.use_trend_filter = f, !.use_volume_filter = f,
                         !.stop_loss_atr_mult = m[1],
                         !.take_profit_atr_mult = m[2],
                         !.max_hold_candles = MaxHold] :
        f \in BOOLEAN, m \in MultsA }
    \cup { [DefaultHpA EXCEPT !.use_trend_filter = FALSE] }

HpSetB ==
    { [DefaultHpB EXCEPT !.stop_loss_atr_mult = m[1],
                         !.take_profit_atr_mult = m[2]] :
        m \in {<<40, 30>>, <<20, 50>>} }

HpSet(v) == IF v = "A" THEN HpSetA ELSE HpSetB

(***************************************************************************)
(* The run of one strategy, bar by bar, as the framework drives it: on a   *)
(* bar with no position it asks should_long/should_short and calls         *)
(* go_long/go_short; an entry order that fills opens the position and      *)
(* on_open_position is called; on a bar with a position it calls           *)
(* update_position.                                                        *)
(***************************************************************************)
should_long == IF variant = "A" THEN should_long_A ELSE should_long_B

should_short == IF variant = "A" THEN should_short_A ELSE should_short_B

entry_raises == variant = "B" /\ candles_4h_raises

Init ==
    /\ variant \in {"A", "B"}
    /\ exchange_type \in IF variant = "A" THEN {"spot", "futures"}
                         ELSE {"futures"}
    /\ hp \in HpSet(variant)
    /\ index = 0
    /\ ind \in IndSet(variant, hp)
    /\ acct \in AcctSet("none")
    /\ position = Flat
    /\ buy = NoOrder /\ sell = NoOrder
    /\ stop_loss = NoOrder /\ take_profit = NoOrder
    /\ entry_candle_index = None
    /\ has_candles_4h = FALSE
    /\ sizing = NoSizing
    /\ liquidate_calls = 0
    /\ exit_trigger = "none"
    /\ last = NoCall
    /\ pc = "bar"

\* the bar ends: entry orders left over are cancelled and the values
\* computed for the bar are dropped
CloseBar ==
    /\ pc = "done"
    /\ ind' = BlankInd /\ acct' = BlankAcct
    /\ buy' = NoOrder /\ sell' = NoOrder
    /\ sizing' = NoSizing /\ liquidate_calls' = 0 /\ exit_trigger' = "none"
    /\ last' = NoCall
    /\ pc' = "closed"
    /\ UNCHANGED <<variant, exchange_type, hp, index, position, stop_loss,
                   take_profit, entry_candle_index, has_candles_4h>>

\* the next bar arrives with its snapshot, one of I
NewBarFrom(I) ==
    /\ pc = "closed"
    /\ index < MaxBars
    /\ index' = index + 1
    /\ ind' \in I
    /\ acct' \in AcctSet(position.side)
    /\ pc' = "bar"
    /\ UNCHANGED <<variant, exchange_type, hp, position, buy, sell, stop_loss,
                   take_profit, entry_candle_index, has_candles_4h, sizing,
                   liquidate_calls, exit_trigger, last>>

NewBar == NewBarFrom(IndSet(variant, hp))

EntryLong ==
    /\ pc = "bar" /\ ~is_open /\ ~entry_raises /\ should_long
    /\ IF variant = "A"
       THEN \E qty \in QtyVals, max_qty \in QtyVals : go_long_A(qty, max_qty)
       ELSE /\ \E qty \in QtyVals : go_long_B(qty)
            /\ UNCHANGED entry_candle_index
    /\ has_candles_4h' = (variant = "B" \/ has_candles_4h)
    /\ last' = Call("go_long", FALSE, FALSE)
    /\ pc' = IF buy'.set THEN "placed" ELSE "done"
    /\ UNCHANGED <<variant, exchange_type, hp, index, ind, acct, position,
                   sell, stop_loss, take_profit, liquidate_calls,
                   exit_trigger>>

EntryShort ==
    /\ pc = "bar" /\ ~is_open /\ ~entry_raises /\ ~should_long /\ should_short
    /\ IF variant = "A"
       THEN \E qty \in QtyVals, max_qty \in QtyVals : go_short_A(qty, max_qty)
       ELSE /\ \E qty \in QtyVals : go_short_B(qty)
            /\ UNCHANGED entry_candle_index
    /\ has_candles_4h' = (variant = "B" \/ has_candles_4h)
    /\ last' = Call("go_short", FALSE, FALSE)
    /\ pc' = IF sell'.set THEN "placed" ELSE "done"
    /\ UNCHANGED <<variant, exchange_type, hp, index, ind, acct, position,
                   buy, stop_loss, take_profit, liquidate_calls,
                   exit_trigger>>

NoEntry ==
    /\ pc = "bar" /\ ~is_open /\ ~entry_raises
    /\ ~should_long /\ ~should_short
    /\ has_candles_4h' = (variant = "B" \/ has_candles_4h)
    /\ last' = Call("should_short", FALSE, FALSE)
    /\ pc' = "done"
    /\ UNCHANGED <<variant, exchange_type, hp, index, ind, acct, position,
                   buy, sell, stop_loss, take_profit, entry_candle_index,
                   sizing, liquidate_calls, exit_trigger>>

\* variant B: the signal that reads candles_4h raises and the bar fails
EntryRaises ==
    /\ pc = "bar" /\ ~is_open /\ entry_raises
    /\ last' = Call(IF should_long_B_raises THEN "should_long"
                  ELSE "should_short", TRUE, FALSE)
    /\ pc' = "failed"
    /\ UNCHANGED <<variant, exchange_type, hp, index, ind, acct, position,
                   buy, sell, stop_loss, take_profit, entry_candle_index,
                   has_candles_4h, sizing, liquidate_calls, exit_trigger>>

\* variant B: the limit order rests while the next bar arrives
Pending ==
    /\ pc = "placed" /\ variant = "B"
    /\ index < MaxBars
    /\ index' = index + 1
    /\ ind' \in IndSet(variant, hp)
    /\ acct' \in AcctSet(position.side)
    /\ pc' = "pending"
    /\ UNCHANGED <<variant, exchange_type, hp, position, buy, sell, stop_loss,
                   take_profit, entry_candle_index, has_candles_4h, sizing,
                   liquidate_calls, exit_trigger, last>>

\* the entry order executes at its price (variant A: a market order, on the
\* bar that submitted it) and the position opens
Fill ==
    /\ pc = IF variant = "A" THEN "placed" ELSE "pending"
    /\ \/ /\ buy.set /\ buy.qty > 0
          /\ position' = [side |-> "long", qty |-> buy.qty,
                          entry_price |-> buy.price]
       \/ /\ sell.set /\ sell.qty > 0
          /\ position' = [side |-> "short", qty |-> sell.qty,
                          entry_price |-> sell.price]
    /\ buy' = NoOrder /\ sell' = NoOrder
    /\ pc' = "opened"
    /\ UNCHANGED <<variant, exchange_type, hp, index, ind, acct, stop_loss,
                   take_profit, entry_candle_index, has_candles_4h, sizing,
                   liquidate_calls, exit_trigger, last>>

\* should_cancel_entry() is True: an order that did not execute is cancelled
Cancel ==
    /\ pc = "pending" /\ should_cancel_entry
    /\ buy' = NoOrder /\ sell' = NoOrder
    /\ pc' = "done"
    /\ UNCHANGED <<variant, exchange_type, hp, index, ind, acct, position,
                   stop_loss, take_profit, entry_candle_index, has_candles_4h,
                   sizing, liquidate_calls, exit_trigger, last>>

OnOpenPosition ==
    /\ pc = "opened"
    /\ IF variant = "A" THEN on_open_position_A ELSE on_open_position_B
    /\ last' = Call("on_open_position", FALSE, FALSE)
    /\ pc' = "done"
    /\ UNCHANGED <<variant, exchange_type, hp, index, ind, acct, position,
                   buy, sell, entry_candle_index, has_candles_4h, sizing,
                   liquidate_calls, exit_trigger>>

\* a bar with an open position; liquidate() closes it and its exit orders.
\* Variant B does not override update_position.
UpdatePosition ==
    /\ pc = "bar" /\ is_open
    /\ IF variant = "A" THEN update_position_A
       ELSE UNCHANGED <<liquidate_calls, exit_trigger>>
    /\ IF liquidate_calls' > 0
       THEN position' = Flat /\ stop_loss' = NoOrder /\ take_profit' = NoOrder
       ELSE UNCHANGED <<position, stop_loss, take_profit>>
    /\ last' = Call("update_position", FALSE, FALSE)
    /\ pc' = "done"
    /\ UNCHANGED <<variant, exchange_type, hp, index, ind, acct, buy, sell,
                   entry_candle_index, has_candles_4h, sizing>>

\* the stop-loss or the take-profit order executes and closes the position
ExitFilled ==
    /\ pc = "done" /\ is_open /\ stop_loss.set
    /\ position' = Flat /\ stop_loss' = NoOrder /\ take_profit' = NoOrder
    /\ UNCHANGED <<variant, exchange_type, hp, index, ind, acct, buy, sell,
                   entry_candle_index, has_candles_4h, sizing,
                   liquidate_calls, exit_trigger, last, pc>>

Next ==
    \/ CloseBar
    \/ NewBar
    \/ EntryLong
    \/ EntryShort
    \/ NoEntry
    \/ EntryRaises
    \/ Pending
    \/ Fill
    \/ Cancel
    \/ OnOpenPosition
    \/ UpdatePosition
    \/ ExitFilled

Spec == Init /\ [][Next]_vars

(***************************************************************************)
(* Variant A, the entry hooks called one at a time on arbitrary bars with  *)
(* no position (every RSI series of RsiSeqs, each filter on or off).       *)
(***************************************************************************)
MaxEntryBars == 1

HpSetEntry ==
    { [DefaultHpA EXCEPT !.use_trend_filter = t, !.use_volume_filter = v,
                         !.rsi_momentum_period = p] :
        t \in BOOLEAN, v \in BOOLEAN, p \in {2, 3} }

InitEntry ==
    /\ variant = "A"
    /\ exchange_type \in {"spot", "futures"}
    /\ hp \in HpSetEntry
    /\ index = 0
    /\ ind \in IndSetA(hp, RsiSeqs)
    /\ acct \in AcctSet("none")
    /\ position = Flat
    /\ buy = NoOrder /\ sell = NoOrder
    /\ stop_loss = NoOrder /\ take_profit = NoOrder
    /\ entry_candle_index = None
    /\ has_candles_4h = FALSE
    /\ sizing = NoSizing
    /\ liquidate_calls = 0
    /\ exit_trigger = "none"
    /\ last = NoCall
    /\ pc = "bar"

NewBarEntry ==
    /\ index < MaxEntryBars
    /\ NewBarFrom(IndSetA(hp, RsiSeqs))

CallShouldLong ==
    /\ pc = "bar"
    /\ last' = Call("should_long", FALSE, should_long_A)
    /\ pc' = "done"
    /\ UNCHANGED <<variant, exchange_type, hp, index, ind, acct, position,
                   buy, sell, stop_loss, take_profit, entry_candle_index,
                   has_candles_4h, sizing, liquidate_calls, exit_trigger>>

CallShouldShort ==
    /\ pc = "bar"
    /\ last' = Call("should_short", FALSE, should_short_A)
    /\ pc' = "done"
    /\ UNCHANGED <<variant, exchange_type, hp, index, ind, acct, position,
                   buy, sell, stop_loss, take_profit, entry_candle_index,
                   has_candles_4h, sizing, liquidate_calls, exit_trigger>>

CallGoLong ==
    /\ pc = "bar"
    /\ \E qty \in QtyVals, max_qty \in QtyVals : go_long_A(qty, max_qty)
    /\ last' = Call("go_long", FALSE, FALSE)
    /\ pc' = "done"
    /\ UNCHANGED <<variant, exchange_type, hp, index, ind, acct, position,
                   sell, stop_loss, take_profit, has_candles_4h,
                   liquidate_calls, exit_trigger>>

CallGoShort ==
    /\ pc = "bar"
    /\ \E qty \in QtyVals, max_qty \in QtyVals : go_short_A(qty, max_qty)
    /\ last' = Call("go_short", FALSE, FALSE)
    /\ pc' = "done"
    /\ UNCHANGED <<variant, exchange_type, hp, index, ind, acct, position,
                   buy, stop_loss, take_profit, has_candles_4h,
                   liquidate_calls, exit_trigger>>

NextEntry ==
    \/ CloseBar
    \/ NewBarEntry
    \/ CallShouldLong
    \/ CallShouldShort
    \/ CallGoLong
    \/ CallGoShort

SpecEntry == InitEntry /\ [][NextEntry]_vars

(***************************************************************************)
(* Variant A, update_position called on arbitrary bars, with or without an *)
(* open position.                                                          *)
(***************************************************************************)
HpSetExit ==
    { [DefaultHpA EXCEPT !.use_trend_filter = t, !.rsi_momentum_period = p,
                         !.max_hold_candles = MaxHold] :
        t \in BOOLEAN, p \in {2, 3} }

PositionSet ==
    { Flat, [side |-> "long", qty |-> 1, entry_price |-> 10000],
      [side |-> "short", qty |-> 1, entry_price |-> 10000] }

InitExit ==
    /\ variant = "A"
    /\ exchange_type \in {"spot", "futures"}
    /\ hp \in HpSetExit
    /\ index = 0
    /\ ind \in IndSetA(hp, RsiSeqs)
    /\ position \in PositionSet
    /\ acct \in AcctSet(position.side)
    /\ buy = NoOrder /\ sell = NoOrder
    /\ stop_loss = NoOrder /\ take_profit = NoOrder
    /\ entry_candle_index \in {None, Some(0)}
    /\ has_candles_4h = FALSE
    /\ sizing = NoSizing
    /\ liquidate_calls = 0
    /\ exit_trigger = "none"
    /\ last = NoCall
    /\ pc = "bar"

NewBarExit == NewBarFrom(IndSetA(hp, RsiSeqs))

CallUpdatePosition ==
    /\ pc = "bar"
    /\ update_position_A
    /\ last' = Call("update_position", FALSE, FALSE)
    /\ pc' = "done"
    /\ UNCHANGED <<variant, exchange_type, hp, index, ind, acct, position,
                   buy, sell, stop_loss, take_profit, entry_candle_index,
                   has_candles_4h, sizing>>

NextExit ==
    \/ CloseBar
    \/ NewBarExit
    \/ CallUpdatePosition

SpecExit == InitExit /\ [][NextExit]_vars

(***************************************************************************)
(* Variant A, the two momentum checks on every RSI series up to MaxSeqLen  *)
(* readings, for every declared rsi_momentum_period.                       *)
(***************************************************************************)
MomentumVals == {48, 50, 52}

MomentumSeqs ==
    UNION { [1..n -> MomentumVals] : n \in 1..MaxSeqLen }
    \cup { <<50, 52, 54, 56>>, <<50, 48, 52, 49>> }

BaseIndA ==
    [ rsi_seq |-> <<50>>, close |-> 1000, ema_fast |-> 1000,
      ema_slow |-> 990, htf_ok |-> TRUE, ema_15m |-> 990, ema_5m |-> 1000,
      atr |-> 5, volume |-> 120, volume_sma |-> 100 ]

InitMomentum ==
    /\ variant = "A"
    /\ exchange_type = "futures"
    /\ hp \in { [DefaultHpA EXCEPT !.rsi_momentum_period = p] : p \in 2..5 }
    /\ index = 0
    /\ ind \in { [BaseIndA EXCEPT !.rsi_seq = q] : q \in MomentumSeqs }
    /\ acct \in AcctSet("none")
    /\ position = Flat
    /\ buy = NoOrder /\ sell = NoOrder
    /\ stop_loss = NoOrder /\ take_profit = NoOrder
    /\ entry_candle_index = None
    /\ has_candles_4h = FALSE
    /\ sizing = NoSizing
    /\ liquidate_calls = 0
    /\ exit_trigger = "none"
    /\ last = NoCall
    /\ pc = "bar"

CallMomentumBullish ==
    /\ pc = "bar"
    /\ last' = Call("rsi_momentum_bullish", FALSE, rsi_momentum_bullish)
    /\ pc' = "done"
    /\ UNCHANGED <<variant, exchange_type, hp, index, ind, acct, position,
                   buy, sell, stop_loss, take_profit, entry_candle_index,
                   has_candles_4h, sizing, liquidate_calls, exit_trigger>>

CallMomentumBearish ==
    /\ pc = "bar"
    /\ last' = Call("rsi_momentum_bearish", FALSE, rsi_momentum_bearish)
    /\ pc' = "done"
    /\ UNCHANGED <<variant, exchange_type, hp, index, ind, acct, position,
                   buy, sell, stop_loss, take_profit, entry_candle_index,
                   has_candles_4h, sizing, liquidate_calls, exit_trigger>>

NextMomentum ==
    \/ CallMomentumBullish
    \/ CallMomentumBearish

SpecMomentum == InitMomentum /\ [][NextMomentum]_vars

(***************************************************************************)
(* Both variants, should_long and should_short evaluated on one bar with   *)
(* no position: the thresholds take the ends and the default of their      *)
(* declared ranges, the readings lie on both sides of every threshold and  *)
(* on it.                                                                  *)
(***************************************************************************)
SignalRsiVals == {14, 15, 34, 35, 50, 65, 66, 85, 86}

SignalRsiSeqs == UNION { RsiShapes(r) : r \in SignalRsiVals }

\* as IndSetA, and the slow EMA may equal the fast one
SignalIndSetA(h) ==
    [ rsi_seq : SignalRsiSeqs, close : CloseVals, ema_fast : {1000},
      ema_slow : IF h.use_trend_filter THEN {990, 1000, 1010} ELSE {990},
      htf_ok : IF h.use_trend_filter THEN BOOLEAN ELSE {TRUE},
      ema_15m : IF h.use_trend_filter THEN {990, 1010} ELSE {990},
      ema_5m : {1000},
      atr : {5},
      volume : IF h.use_volume_filter THEN {120, 130} ELSE {120},
      volume_sma : {100} ]

SignalIndSetB ==
    [ price : {1000}, atr : {5},
      tema_short : {1000}, tema_medium : {990, 1000, 1010},
      ok_4h : BOOLEAN, tema_short_4h : {1000},
      tema_long_4h : {990, 1000, 1010},
      adx : {20, 21, 41, 61}, cmo : {-61, -41, -21, 0, 21, 41, 61} ]

\* rsi_oversold up to 70: above the lowest rsi_overbought
HpSetSignalsA_overlapping ==
    { [DefaultHpA EXCEPT !.rsi_oversold = lo, !.rsi_overbought = hi,
                         !.use_trend_filter = t, !.use_volume_filter = v,
                         !.rsi_momentum_period = p] :
        lo \in {15, 30, 70}, hi \in {65, 70, 85},
        t \in BOOLEAN, v \in BOOLEAN, p \in {2, 3} }

\* rsi_oversold 15..35, rsi_overbought 65..85
HpSetSignalsA ==
    { [DefaultHpA EXCEPT !.rsi_oversold = lo, !.rsi_overbought = hi,
                         !.use_trend_filter = t, !.use_volume_filter = v,
                         !.rsi_momentum_period = p] :
        lo \in {15, 30, 35}, hi \in {65, 70, 85},
        t \in BOOLEAN, v \in BOOLEAN, p \in {2, 3} }

\* adx_threshold 20..60, cmo_upper_threshold 20..60,
\* cmo_lower_threshold -60..-20
HpSetSignalsB ==
    { [DefaultHpB EXCEPT !.adx_threshold = a, !.cmo_upper_threshold = u,
                         !.cmo_lower_threshold = l] :
        a \in {20, 40, 60}, u \in {20, 40, 60}, l \in {-60, -40, -20} }

InitSignals ==
    /\ variant \in {"A", "B"}
    /\ exchange_type \in IF variant = "A" THEN {"spot", "futures"}
                         ELSE {"futures"}
    /\ hp \in IF variant = "A" THEN HpSetSignalsA ELSE HpSetSignalsB
    /\ index = 0
    /\ ind \in IF variant = "A" THEN SignalIndSetA(hp) ELSE SignalIndSetB
    /\ acct \in AcctSet("none")
    /\ position = Flat
    /\ buy = NoOrder /\ sell = NoOrder
    /\ stop_loss = NoOrder /\ take_profit = NoOrder
    /\ entry_candle_index = None
    /\ has_candles_4h = FALSE
    /\ sizing = NoSizing
    /\ liquidate_calls = 0
    /\ exit_trigger = "none"
    /\ last = NoCall
    /\ pc = "bar"

\* variant B reads candles_4h once short_term_trend agrees: the read raises,
\* or the candles are kept
EvalShouldLong ==
    /\ pc = "bar"
    /\ IF variant = "B" /\ should_long_B_raises
       THEN /\ last' = Call("should_long", TRUE, FALSE)
            /\ pc' = "failed"
            /\ UNCHANGED has_candles_4h
       ELSE /\ last' = Call("should_long", FALSE, should_long)
            /\ pc' = "done"
            /\ has_candles_4h' =
                   (has_candles_4h \/ (variant = "B" /\ short_term_trend = 1))
    /\ UNCHANGED <<variant, exchange_type, hp, index, ind, acct, position,
                   buy, sell, stop_loss, take_profit, entry_candle_index,
                   sizing, liquidate_calls, exit_trigger>>

EvalShouldShort ==
    /\ pc = "bar"
    /\ IF variant = "B" /\ should_short_B_raises
       THEN /\ last' = Call("should_short", TRUE, FALSE)
            /\ pc' = "failed"
            /\ UNCHANGED has_candles_4h
       ELSE /\ last' = Call("should_short", FALSE, should_short)
            /\ pc' = "done"
            /\ has_candles_4h' =
                   (has_candles_4h \/ (variant = "B" /\ short_term_trend = -1))
    /\ UNCHANGED <<variant, exchange_type, hp, index, ind, acct, position,
                   buy, sell, stop_loss, take_profit, entry_candle_index,
                   sizing, liquidate_calls, exit_trigger>>

NextSignals ==
    \/ EvalShouldLong
    \/ EvalShouldShort

SpecSignals == InitSignals /\ [][NextSignals]_vars

(***************************************************************************)
(* Properties.                                                             *)
(***************************************************************************)

\* C1 (Spec): in both variants the levels registered by on_open_position
\* are strictly ordered around the entry price, whatever the
\* hyperparameters and the ATR: long  stop_loss < entry_price < take_profit,
\* short  take_profit < entry_price < stop_loss.
C1_LevelsStrictlyOrdered ==
    (last.hook = "on_open_position") =>
        /\ is_long => /\ stop_loss.price < position.entry_price
                      /\ position.entry_price < take_profit.price
        /\ is_short => /\ take_profit.price < position.entry_price
                       /\ position.entry_price < stop_loss.price

\* C2 (SpecEntry): variant A, an entry order submitted by go_long or
\* go_short has a strictly positive quantity, equal to the smaller of the
\* risk_to_qty result and the size_to_qty result, so never above the
\* max_capital_per_trade quantity.
C2_EntryQtyClamped ==
    /\ buy.set => /\ last.hook = "go_long"
                  /\ buy.qty > 0
                  /\ buy.qty = Min(sizing.qty, sizing.max_qty)
                  /\ buy.qty <= sizing.max_qty
    /\ sell.set => /\ last.hook = "go_short"
                   /\ sell.qty > 0
                   /\ sell.qty = Min(sizing.qty, sizing.max_qty)
                   /\ sell.qty <= sizing.max_qty

\* C2 witness: go_long submitted an order whose quantity is the cap, the
\* risk-based quantity being larger
C2_Witness ==
    /\ last.hook = "go_long" /\ buy.set
    /\ sizing.max_qty < sizing.qty /\ buy.qty = sizing.max_qty

\* C3 (Spec): in both variants a go_long/go_short call whose computed
\* quantity is <= 0 places no buy/sell order, raises nothing and leaves the
\* recorded entry bar index as it was.
C3_NonPositiveQtySkips ==
    [][ ( /\ pc = "bar"
          /\ last'.hook \in {"go_long", "go_short"}
          /\ sizing'.final_qty <= 0 )
        => ( /\ ~buy'.set /\ ~sell'.set
             /\ ~last'.raised
             /\ entry_candle_index' = entry_candle_index ) ]_vars

\* C4 (SpecEntry): variant A on a spot instrument: should_short() is false
\* on every bar, whatever the indicators, and go_short() submits no sell
\* order, so no short entry is ever submitted.
C4_SpotNeverShorts ==
    (exchange_type = "spot") =>
        /\ pc # "closed" => ~should_short_A
        /\ last.hook = "should_short" => ~last.ret
        /\ ~sell.set

\* C4 witness: go_short was called on a spot instrument on a bar that is
\* overbought with falling RSI
C4_Witness ==
    /\ exchange_type = "spot" /\ last.hook = "go_short"
    /\ rsi > hp.rsi_overbought /\ rsi_momentum_bearish

\* C5 (Spec): variant A, a position entered at bar e: on a bar where no
\* other exit trigger fires, update_position liquidates if and only if
\* index - e = max_hold_candles, and the position never lives beyond that.
C5_MaxHoldExit ==
    [][ ( /\ variant = "A" /\ pc = "bar" /\ is_open
          /\ last'.hook = "update_position"
          /\ ~near_liquidation /\ ~rsi_exit /\ ~trend_exit )
        => ( /\ entry_candle_index # None
             /\ index - entry_candle_index[1] <= hp.max_hold_candles
             /\ liquidate_calls' =
                    IF index - entry_candle_index[1] = hp.max_hold_candles
                    THEN 1 ELSE 0 ) ]_vars

\* C5 witness: update_position liquidated on the max-hold timeout
C5_Witness ==
    /\ variant = "A" /\ last.hook = "update_position"
    /\ exit_trigger = "max_hold" /\ liquidate_calls = 1
    /\ index - entry_candle_index[1] = hp.max_hold_candles

\* C6 (Spec): when the higher-timeframe candles cannot be retrieved (15m in
\* variant A, 4h in variant B) the bar's evaluation does not fail: the
\* indicator is the one of the primary timeframe and the signals return.
C6_HigherTfFailureTolerated ==
    (pc # "closed") =>
        /\ (variant = "A" /\ ~ind.htf_ok) => higher_tf_ema = ind.ema_5m
        /\ (variant = "B" /\ ~ind.ok_4h) => ~last.raised /\ pc # "failed"

\* the scenario of C7: variant A, default hyperparameters with the trend
\* filter (and the volume filter, off by default) disabled, RSI 25
C7_Scenario ==
    /\ variant = "A" /\ pc # "closed"
    /\ hp = [DefaultHpA EXCEPT !.use_trend_filter = FALSE]
    /\ rsi = 25 /\ rsi_momentum_bullish

\* C7 as stated (Spec): in the scenario should_long() is true and the long
\* position carries stop-loss = close - 2.5 ATR, take-profit = close + 3.5 ATR
C7_AsStated ==
    C7_Scenario =>
        /\ should_long_A
        /\ (last.hook = "on_open_position" /\ is_long) =>
               /\ stop_loss.price = 10 * close - 25 * atr
               /\ take_profit.price = 10 * close + 35 * atr

\* C7 amended (Spec): in the scenario should_long() is true and the long
\* position carries stop-loss = close - 2.0 ATR, take-profit = close + 3.0 ATR
\* (the declared defaults), each for the position's quantity
C7_DefaultLevels ==
    C7_Scenario =>
        /\ should_long_A
        /\ (last.hook = "on_open_position" /\ is_long) =>
               /\ stop_loss = Order(position.qty, 10 * close - 20 * atr)
               /\ take_profit = Order(position.qty, 10 * close + 30 * atr)

\* C7 witness: the scenario's long position has opened, with a positive ATR
C7_Witness ==
    /\ C7_Scenario /\ last.hook = "on_open_position" /\ is_long /\ atr > 0

\* the first exit trigger that matches, in the order liquidation guard,
\* max-hold timeout, RSI exhaustion, trend reversal
FirstTrigger ==
    IF near_liquidation THEN "liquidation"
    ELSE IF held_too_long THEN "max_hold"
    ELSE IF rsi_exit THEN "rsi"
    ELSE IF trend_exit THEN "trend"
    ELSE "none"

\* C8 (SpecExit): variant A, update_position with an open position stops at
\* the first trigger that matches in the fixed order and calls liquidate()
\* at most once; with no position it calls liquidate() zero times.
C8_ExitOrder ==
    (last.hook = "update_position") =>
        /\ liquidate_calls <= 1
        /\ ~is_open => liquidate_calls = 0 /\ exit_trigger = "none"
        /\ is_open => /\ exit_trigger = FirstTrigger
                      /\ liquidate_calls = IF FirstTrigger = "none" THEN 0
                                           ELSE 1

\* C8 witness: the first three triggers all match and the liquidation
\* guard is the one that liquidated, once
C8_Witness ==
    /\ last.hook = "update_position" /\ is_open
    /\ near_liquidation /\ held_too_long /\ rsi_exit
    /\ exit_trigger = "liquidation" /\ liquidate_calls = 1

\* strict rises / falls among the last p consecutive pairs of series q
Rises(q, p) ==
    Cardinality({i \in (Len(q) - p + 1)..Len(q) : q[i] > q[i - 1]})

Falls(q, p) ==
    Cardinality({i \in (Len(q) - p + 1)..Len(q) : q[i] < q[i - 1]})

C10_LiquidationGuard ==
    (last.hook = "update_position") =>
        /\ (exit_trigger = "liquidation") <=>
               /\ is_open
               /\ exchange_type = "futures"
               /\ acct.liquidation_price # None
               /\ \/ is_long /\ 10 * close <= 11 * acct.liquidation_price[1]
                  \/ is_short /\ 10 * close >= 9 * acct.liquidation_price[1]
        /\ acct.liquidation_price = None =>
               /\ ~last.raised
               /\ exit_trigger =
                      IF ~is_open THEN "none"
                      ELSE IF held_too_long THEN "max_hold"
                      ELSE IF rsi_exit THEN "rsi"
                      ELSE IF trend_exit THEN "trend"
                      ELSE "none"

\* C10 witness: a futures position without a liquidation price was
\* liquidated by the RSI trigger
C10_Witness ==
    /\ last.hook = "update_position" /\ is_open
    /\ exchange_type = "futures" /\ acct.liquidation_price = None
    /\ exit_trigger = "rsi" /\ liquidate_calls = 1

\* C11 (SpecSignals): variant A.  With the trend filter enabled the verdict
\* of trend_direction is bullish exactly when fast EMA > slow EMA and
\* close > higher-timeframe EMA, bearish exactly when neither comparison
\* holds, and neutral otherwise; on a bearish verdict should_long() is
\* false, on a bullish verdict should_short() is false, and on a neutral
\* verdict each signal is decided by its other gates alone.  With the
\* filter disabled the verdict is neutral.
C11_TrendVerdict ==
    (variant = "A" /\ pc # "closed") =>
        LET fast_above == ind.ema_fast > ind.ema_slow
            close_above == ind.close > higher_tf_ema
            long_gates == /\ rsi < hp.rsi_oversold
                          /\ rsi_momentum_bullish
                          /\ volume_confirmation
                          /\ 1000 * close >= ema_fast * EmaBelow1000
            short_gates == /\ exchange_type # "spot"
                           /\ rsi > hp.rsi_overbought
                           /\ rsi_momentum_bearish
                           /\ volume_confirmation
                           /\ 1000 * close <= ema_fast * EmaAbove1000
        IN  /\ trend_direction \in {-1, 0, 1}
            /\ ~hp.use_trend_filter => trend_direction = 0
            /\ hp.use_trend_filter =>
                   /\ trend_direction = 1 <=> (fast_above /\ close_above)
                   /\ trend_direction = -1 <=> (~fast_above /\ ~close_above)
                   /\ trend_direction = -1 =>
                          /\ ~should_long_A
                          /\ last.hook = "should_long" => ~last.ret
                   /\ trend_direction = 1 =>
                          /\ ~should_short_A
                          /\ last.hook = "should_short" => ~last.ret
                   /\ trend_direction = 0 =>
                          /\ should_long_A <=> long_gates
                          /\ should_short_A <=> short_gates

\* the filter is on, the two comparisons disagree and should_long() has
\* returned true
C11_Witness ==
    /\ variant = "A" /\ hp.use_trend_filter
    /\ ind.ema_fast > ind.ema_slow /\ ~(ind.close > higher_tf_ema)
    /\ trend_direction = 0
    /\ last.hook = "should_long" /\ last.ret

\* C12 (SpecSignals): in each variant, for every snapshot and every
\* hyperparameter configuration within the declared ranges, should_long()
\* and should_short() are not both true on the same bar.
C12_NeverBothSignals ==
    (pc # "closed") =>
        /\ ~(should_long /\ should_short)
        /\ (last.hook = "should_long" /\ last.ret) => ~should_short
        /\ (last.hook = "should_short" /\ last.ret) => ~should_long

\* variant A on futures: should_long() has returned true on a bar whose RSI
\* series also has bearish momentum and whose trend verdict does not block a
\* short
C12_Witness ==
    /\ variant = "A" /\ exchange_type = "futures"
    /\ last.hook = "should_long" /\ last.ret
    /\ rsi_momentum_bearish /\ trend_direction # 1

====
